---- MODULE Spec2Model ----
(***************************************************************************)
(* Model of dictate.py: the hotkey handlers (on_press / on_release), the   *)
(* hold timer (threading.Timer -> start_recording_from_backtick), the      *)
(* capture callback (audio_callback), the session controller               *)
(* (start_recording / stop_recording / transcribe_and_type / undo) and the *)
(* device recovery loop (run_dictation).                                   *)
(*                                                                         *)
(* Flows of control: the listener thread (one handler at a time), one      *)
(* thread per threading.Timer, the capture callback, the recovery loop.    *)
(* Time is counted in units of 0.3 s, the value of both thresholds.        *)
(***************************************************************************)
EXTENDS Integers, Sequences, FiniteSets, TLC

\* ---------------------------------------------------------------- bounds
MaxTime == 3
MaxTimers == 2
MaxChunks == 2
MaxFaults == 1
MaxRepeats == 1

\* ------------------------------------------------------- program constants
BACKTICK_HOLD_THRESHOLD == 1
DOUBLE_TAP_THRESHOLD == 1

None == -1

ICON_IDLE == "mic-idle"
ICON_RECORDING == "mic-recording"
ICON_TRANSCRIBING == "mic-transcribing"
ICON_ERROR == "mic-error"

HOTKEY == "pause"
BACKTICK == "backtick"

\* ------------------------------------------------------------------ state
VARIABLES
    \* module globals of dictate.py; tray is the icon last handed to
    \* set_tray_status
    recording, typing_transcription, audio_queue, audio_data, device_error,
    backtick_press_time, backtick_timer, last_backtick_tap_time,
    transcription_stack, tray,
    \* listener thread: position, key of the event, locals audio and text
    lpc, lkey, audio, text,
    \* timer threads, capture callback, recovery loop, stream, listener
    timers, cpc, cchunk, dpc, stream_open, listener_running,
    \* environment: time.time(), keys physically held, chunks delivered,
    \* faults signalled, auto-repeat presses delivered
    clock, keys_down, nextChunk, faults, repeats,
    \* history (not read by the program): what the current backtick press
    \* cycle emitted; the chunks of the current session that were enqueued,
    \* whether the device faulted during it, whether the chunk in the hands
    \* of the callback was delivered during it; and, for the
    \* stop_recording() call in progress, the first two as they were at
    \* line 103 and whether a session was active then; and for each entry
    \* of transcription_stack whether the xdotool type call of line 146
    \* returned successfully for it
    cyc, enq, session_fault, cfresh, l_enq, l_fault, l_active, stack_typed

progVars == <<recording, typing_transcription, audio_queue, audio_data,
              device_error, backtick_press_time, backtick_timer,
              last_backtick_tap_time, transcription_stack, tray>>
listenerVars == <<lpc, lkey, audio, text>>
flowVars == <<listenerVars, timers, cpc, cchunk, dpc, stream_open,
              listener_running>>
envVars == <<clock, keys_down, nextChunk, faults, repeats>>
histVars == <<cyc, enq, session_fault, cfresh, l_enq, l_fault, l_active,
              stack_typed>>
vars == <<progVars, flowVars, envVars, histVars>>

\* ------------------------------------------------------- pure operations
TimerIds == 1..MaxTimers

\* indata.copy(): the samples of the i-th delivered chunk (two per chunk)
Chunk(i) == <<2 * i - 1, 2 * i>>

\* np.concatenate(audio_data)
RECURSIVE Concatenate(_)
Concatenate(chunks) ==
    IF chunks = <<>> THEN <<>>
    ELSE Head(chunks) \o Concatenate(Tail(chunks))

\* str.strip(): drop leading and trailing blanks
RECURSIVE LStrip(_)
LStrip(s) == IF s # <<>> /\ Head(s) = " " THEN LStrip(Tail(s)) ELSE s

RECURSIVE RStrip(_)
RStrip(s) ==
    IF s # <<>> /\ s[Len(s)] = " " THEN RStrip(SubSeq(s, 1, Len(s) - 1))
    ELSE s

\* the text as it would be handed on without the strip() of line 140
Strip_none(s) == s

Strip(s) == RStrip(LStrip(s))

\* texts the transcription service may return (transcription.text)
Transcriptions ==
    { <<" ">>, <<" ", "o", "k", " ">>, <<"h", "e", "l", "l", "o">> }

\* a slot of the timer table that holds no live threading.Timer; a timer
\* that was cancelled or whose callback has returned gives its slot back
NoTimer == [state |-> "unused", deadline |-> 0, rel |-> "open"]

\* threading.Timer.cancel(): only a timer that has not fired yet is stopped
Cancel(t) ==
    IF t # None /\ timers[t].state = "pending"
    THEN [timers EXCEPT ![t] = NoTimer]
    ELSE timers

\* ---------------------------------------------------------------- history
\* counters saturate: 0, 1, ..., k-1, "k or more"
Bump(n, k) == IF n < k THEN n + 1 ELSE n

\* what the backtick machinery (hold timers, backtick release) has emitted
\* since the last accepted backtick press:
\*   press      timer started by that press (0: no press accepted yet)
\*   timer      that timer is "pending", was "cancelled" or has "fired"
\*   begin      start_recording calls made by hold timers
\*   end        stop_recording calls made by the backtick release
\*   del        corrective BackSpace key events (lines 196 and 241)
\*   del_first  value of del when the first of those start_recording ran
\*   undo       undo_last_transcription was called
\*   undel      BackSpace key events it issued (line 206)
\*   rel        how the release of the cycle was handled
\*   held       the release event came at least the hold threshold after
\*              the press
\*   long       held_duration >= BACKTICK_HOLD_THRESHOLD as measured by the
\*              release handler (line 230)
\*   prior      an earlier tap was inside the double-tap window then
\*   at         time.time() read by that release
\*   done       the on_release call of the cycle has returned
NoCycle == [press |-> 0, timer |-> "none", begin |-> 0, end |-> 0, del |-> 0,
            del_first |-> 0, undo |-> 0, undel |-> 0, rel |-> "none",
            held |-> FALSE, long |-> FALSE, prior |-> FALSE, at |-> 0,
            done |-> FALSE]

NoteBegin(c) == [c EXCEPT !.begin = Bump(c.begin, 2),
                          !.del_first = IF c.begin = 0 THEN c.del ELSE @]
NoteEnd(c) == [c EXCEPT !.end = Bump(c.end, 2)]
NoteFired(c, t) ==
    IF c.press = t /\ c.timer = "pending" THEN [c EXCEPT !.timer = "fired"]
    ELSE c
NoteCancelled(c, t) ==
    IF t # None /\ c.press = t /\ c.timer = "pending"
    THEN [c EXCEPT !.timer = "cancelled"] ELSE c
NoteReleased(c) ==
    IF backtick_press_time = None THEN c
    ELSE [c EXCEPT !.held =
             clock - backtick_press_time >= BACKTICK_HOLD_THRESHOLD]
NoteDel(c, n) == [c EXCEPT !.del = IF c.del + n > 3 THEN 3 ELSE c.del + n]

\* the release handler took over / finished the presses made so far
Handling(tm) ==
    [t \in TimerIds |->
        IF tm[t].state # "unused" /\ tm[t].rel = "open"
        THEN [tm[t] EXCEPT !.rel = "handling"] ELSE tm[t]]
Handled(tm) ==
    [t \in TimerIds |->
        IF tm[t].rel = "handling" THEN [tm[t] EXCEPT !.rel = "done"]
        ELSE tm[t]]

\* on_release returns: the presses it took over are finished
Returned(c) ==
    IF lkey = BACKTICK /\ c.rel # "none" THEN [c EXCEPT !.done = TRUE] ELSE c
ReturnedTimers == IF lkey = BACKTICK THEN Handled(timers) ELSE timers

\* ------------------------------------------------------------------- Init
Init ==
    /\ recording = FALSE
    /\ typing_transcription = FALSE
    /\ audio_queue = <<>>
    /\ audio_data = <<>>
    /\ device_error = FALSE
    /\ backtick_press_time = None
    /\ backtick_timer = None
    /\ last_backtick_tap_time = None
    /\ transcription_stack = <<>>
    /\ tray = ICON_IDLE
    /\ lpc = "idle"
    /\ lkey = HOTKEY
    /\ audio = <<>>
    /\ text = <<>>
    /\ timers = [t \in TimerIds |-> NoTimer]
    /\ cpc = "idle"
    /\ cchunk = 0
    /\ dpc = "loop"
    /\ stream_open = FALSE
    /\ listener_running = TRUE
    /\ clock = 1
    /\ keys_down = {}
    /\ nextChunk = 1
    /\ faults = 0
    /\ repeats = 0
    /\ cyc = NoCycle
    /\ enq = <<>>
    /\ session_fault = FALSE
    /\ cfresh = FALSE
    /\ l_enq = <<>>
    /\ l_fault = FALSE
    /\ l_active = FALSE
    /\ stack_typed = <<>>

\* ----------------------------------------------------- session controller
\* start_recording(): lines 95-97
start_recording ==
    /\ audio_data' = <<>>
    /\ recording' = TRUE
    /\ tray' = ICON_RECORDING
    /\ enq' = <<>>
    /\ session_fault' = FALSE
    /\ cfresh' = FALSE

\* what no step of the listener thread touches
notListener == <<device_error, cpc, cchunk, dpc, stream_open, clock,
                 nextChunk, faults>>

\* ------------------------------------------------------ listener: on_press
\* on_press(key) as it would be without the test of lines 175-176
on_press_ungated(key) ==
    IF key = HOTKEY /\ ~recording
    THEN /\ start_recording
         /\ UNCHANGED <<backtick_press_time, backtick_timer, timers, cyc>>
    ELSE UNCHANGED <<audio_data, recording, tray, enq, session_fault,
                     cfresh, backtick_press_time, backtick_timer, timers, cyc>>

\* on_press(key), lines 175-188: the gate, then Pause starts recording at
\* once and a backtick notes the press time and starts the hold timer
on_press(key) ==
    IF typing_transcription
    THEN UNCHANGED <<audio_data, recording, tray, enq, session_fault,
                     cfresh, backtick_press_time, backtick_timer, timers, cyc>>
    ELSE IF key = HOTKEY /\ ~recording
    THEN /\ start_recording
         /\ UNCHANGED <<backtick_press_time, backtick_timer, timers, cyc>>
    ELSE IF key = BACKTICK /\ ~recording
    THEN /\ clock + BACKTICK_HOLD_THRESHOLD <= MaxTime
         /\ \E t \in TimerIds :
              /\ timers[t].state = "unused"
              /\ \A u \in TimerIds : u < t => timers[u].state # "unused"
              /\ backtick_press_time' = clock
              /\ backtick_timer' = t
              /\ timers' = [timers EXCEPT ![t] =
                     [state |-> "pending",
                      deadline |-> clock + BACKTICK_HOLD_THRESHOLD,
                      rel |-> "open"]]
              /\ cyc' = [NoCycle EXCEPT !.press = t, !.timer = "pending"]
         /\ UNCHANGED <<audio_data, recording, tray, enq, session_fault,
                        cfresh>>
    ELSE UNCHANGED <<audio_data, recording, tray, enq, session_fault,
                     cfresh, backtick_press_time, backtick_timer, timers, cyc>>

\* the listener delivers the press of a key that was up
OnPress(key) ==
    /\ UNCHANGED stack_typed
    /\ lpc = "idle" /\ listener_running
    /\ key \notin keys_down
    /\ keys_down' = keys_down \cup {key}
    /\ on_press(key)
    /\ UNCHANGED <<typing_transcription, audio_queue,
                   last_backtick_tap_time, transcription_stack>>
    /\ UNCHANGED <<listenerVars, listener_running, repeats, l_enq, l_fault,
                   l_active>>
    /\ UNCHANGED notListener

\* the listener delivers an auto-repeat press of a key that is held
OnRepeat(key) ==
    /\ UNCHANGED stack_typed
    /\ lpc = "idle" /\ listener_running
    /\ key \in keys_down
    /\ repeats < MaxRepeats
    /\ repeats' = repeats + 1
    /\ on_press(key)
    /\ UNCHANGED <<typing_transcription, audio_queue,
                   last_backtick_tap_time, transcription_stack>>
    /\ UNCHANGED <<listenerVars, listener_running, keys_down, l_enq, l_fault,
                   l_active>>
    /\ UNCHANGED notListener

\* on_press(key) is called while the listener thread is inside the text
\* injection of transcribe_and_type (line 147)
PressWhileTyping(key) ==
    /\ UNCHANGED stack_typed
    /\ lpc = "type" /\ listener_running
    /\ key \notin keys_down
    /\ keys_down' = keys_down \cup {key}
    /\ on_press(key)
    /\ UNCHANGED <<typing_transcription, audio_queue,
                   last_backtick_tap_time, transcription_stack>>
    /\ UNCHANGED <<listenerVars, listener_running, repeats, l_enq, l_fault,
                   l_active>>
    /\ UNCHANGED notListener

\* ---------------------------------------------------- listener: on_release
\* on_release(key), lines 214-227: the gate; Pause released while recording
\* goes to stop_recording(); a backtick release cancels the pending timer
on_release(key) ==
    IF typing_transcription
    THEN UNCHANGED <<lpc, timers, backtick_timer, cyc>>
    ELSE IF key = HOTKEY
    THEN /\ lpc' = IF recording THEN "stop" ELSE "idle"
         /\ UNCHANGED <<timers, backtick_timer, cyc>>
    ELSE /\ timers' = Handling(Cancel(backtick_timer))
         /\ backtick_timer' = None
         /\ cyc' = NoteReleased(NoteCancelled(cyc, backtick_timer))
         /\ lpc' = "release"

\* the listener delivers the release of a key that was down
OnRelease(key) ==
    /\ UNCHANGED stack_typed
    /\ lpc = "idle" /\ listener_running
    /\ key \in keys_down
    /\ keys_down' = keys_down \ {key}
    /\ lkey' = key
    /\ on_release(key)
    /\ UNCHANGED <<recording, typing_transcription, audio_queue, audio_data,
                   backtick_press_time, last_backtick_tap_time,
                   transcription_stack, tray>>
    /\ UNCHANGED <<audio, text, listener_running, repeats>>
    /\ UNCHANGED <<enq, session_fault, cfresh, l_enq, l_fault, l_active>>
    /\ UNCHANGED notListener

\* on_release(key) is called while the listener thread is inside the text
\* injection of transcribe_and_type (line 147)
ReleaseWhileTyping(key) ==
    /\ UNCHANGED stack_typed
    /\ lpc = "type" /\ listener_running
    /\ key \in keys_down
    /\ keys_down' = keys_down \ {key}
    /\ on_release(key)
    /\ UNCHANGED <<recording, typing_transcription, audio_queue, audio_data,
                   backtick_press_time, last_backtick_tap_time,
                   transcription_stack, tray>>
    /\ UNCHANGED <<lkey, audio, text, listener_running, repeats>>
    /\ UNCHANGED <<enq, session_fault, cfresh, l_enq, l_fault, l_active>>
    /\ UNCHANGED notListener

\* the listener thread dies with the exception a handler raised
\* (listener.running becomes false)
Raise ==
    /\ lpc' = "dead"
    /\ listener_running' = FALSE
    /\ UNCHANGED <<timers, audio, text, l_enq, l_fault, l_active>>

\* the handler returns to the listener loop; its locals are gone
Return ==
    /\ lpc' = "idle"
    /\ timers' = ReturnedTimers
    /\ audio' = <<>>
    /\ text' = <<>>
    /\ l_enq' = <<>>
    /\ l_fault' = FALSE
    /\ l_active' = FALSE
    /\ UNCHANGED listener_running

\* lines 229-240 and 244-246: measure the hold, then end the recording or
\* classify the tap
ReleaseBacktick ==
    /\ UNCHANGED stack_typed
    /\ lpc = "release"
    /\ IF backtick_press_time = None
       THEN /\ Return
            /\ cyc' = Returned(cyc)
            /\ UNCHANGED <<backtick_press_time, last_backtick_tap_time>>
       ELSE LET held_duration == clock - backtick_press_time
                long == held_duration >= BACKTICK_HOLD_THRESHOLD
                now == clock
                prior == /\ last_backtick_tap_time # None
                         /\ last_backtick_tap_time # 0
                         /\ now - last_backtick_tap_time
                               < DOUBLE_TAP_THRESHOLD
                c == [cyc EXCEPT !.long = long, !.prior = prior, !.at = now]
            IN /\ backtick_press_time' = None
               /\ IF recording
                  THEN /\ lpc' = "stop"
                       /\ cyc' = [NoteEnd(c) EXCEPT !.rel = "hold"]
                       /\ UNCHANGED <<last_backtick_tap_time, timers, audio,
                                      text, l_enq, l_fault, l_active,
                                      listener_running>>
                  ELSE IF held_duration < BACKTICK_HOLD_THRESHOLD
                  THEN IF /\ last_backtick_tap_time # None
                          /\ last_backtick_tap_time # 0
                          /\ now - last_backtick_tap_time
                                < DOUBLE_TAP_THRESHOLD
                       THEN /\ lpc' = "dt_bs"
                            /\ cyc' = [c EXCEPT !.rel = "dtap"]
                            /\ UNCHANGED <<last_backtick_tap_time, timers,
                                           audio, text, l_enq, l_fault,
                                           l_active, listener_running>>
                       ELSE /\ last_backtick_tap_time' = now
                            /\ Return
                            /\ cyc' = Returned([c EXCEPT !.rel = "tap"])
                  ELSE /\ Return
                       /\ cyc' = Returned([c EXCEPT !.rel = "long"])
                       /\ UNCHANGED last_backtick_tap_time
    /\ UNCHANGED <<recording, typing_transcription, audio_queue, audio_data,
                   backtick_timer, transcription_stack, tray>>
    /\ UNCHANGED <<lkey, keys_down, repeats, enq, session_fault, cfresh>>
    /\ UNCHANGED notListener

\* line 241: xdotool key BackSpace BackSpace; check=True raises on failure
DoubleTapBackSpace ==
    /\ UNCHANGED stack_typed
    /\ lpc = "dt_bs"
    /\ \E ok \in BOOLEAN :
         IF ok
         THEN /\ lpc' = "undo"
              /\ cyc' = NoteDel(cyc, 2)
              /\ UNCHANGED <<timers, audio, text, l_enq, l_fault, l_active,
                             listener_running>>
         ELSE /\ Raise
              /\ UNCHANGED cyc
    /\ UNCHANGED <<recording, typing_transcription, audio_queue, audio_data,
                   backtick_press_time, backtick_timer,
                   last_backtick_tap_time, transcription_stack, tray>>
    /\ UNCHANGED <<lkey, keys_down, repeats, enq, session_fault, cfresh>>
    /\ UNCHANGED notListener

\* undo_last_transcription() as it would be with pop(0) in place of pop()
undo_last_transcription_first(stack) ==
    IF stack # <<>>
    THEN [stack |-> Tail(stack), calls |-> Len(Head(stack))]
    ELSE [stack |-> stack, calls |-> 0]

\* undo_last_transcription(), lines 202-206: the stack it leaves and the
\* number of BackSpace calls its loop makes
undo_last_transcription(stack) ==
    IF stack # <<>>
    THEN [stack |-> SubSeq(stack, 1, Len(stack) - 1),
          calls |-> Len(stack[Len(stack)])]
    ELSE [stack |-> stack, calls |-> 0]

\* line 242, then line 243: k of the BackSpace calls succeed; the loop ends
\* with the exception of the first call that fails (check=True)
Undo ==
    /\ lpc = "undo"
    /\ LET u == undo_last_transcription(transcription_stack)
       IN /\ transcription_stack' = u.stack
          /\ stack_typed' = SubSeq(stack_typed, 1, Len(u.stack))
          /\ \E k \in 0..u.calls :
               IF k = u.calls
               THEN /\ last_backtick_tap_time' = None
                    /\ Return
                    /\ cyc' = Returned([cyc EXCEPT !.undo = 1, !.undel = k])
               ELSE /\ Raise
                    /\ cyc' = [cyc EXCEPT !.undo = 1, !.undel = k]
                    /\ UNCHANGED last_backtick_tap_time
    /\ UNCHANGED <<recording, typing_transcription, audio_queue, audio_data,
                   backtick_press_time, backtick_timer, tray>>
    /\ UNCHANGED <<lkey, keys_down, repeats, enq, session_fault, cfresh>>
    /\ UNCHANGED notListener

\* ------------------------------------------- listener: stop_recording()
\* lines 106 and 109-115, and lines 123-130 of transcribe_and_type(): test
\* the queue; when it is empty either notify Idle and return, or
\* concatenate, notify Transcribing and write the temporary WAV file
\* (outside the try block: a failure raises).  le, lf and la are the
\* history of the session that is being stopped.
DrainTest(le, lf, la) ==
    IF audio_queue # <<>>
    THEN /\ lpc' = "get"
         /\ l_enq' = le /\ l_fault' = lf /\ l_active' = la
         /\ UNCHANGED <<tray, audio, timers, cyc, text, listener_running>>
    ELSE IF audio_data = <<>>
    THEN /\ tray' = ICON_IDLE
         /\ Return
         /\ cyc' = Returned(cyc)
    ELSE /\ tray' = ICON_TRANSCRIBING
         /\ l_enq' = le /\ l_fault' = lf /\ l_active' = la
         /\ UNCHANGED <<cyc, timers, text>>
         /\ \E ok \in BOOLEAN :
              IF ok
              THEN /\ audio' = Concatenate(audio_data)
                   /\ lpc' = "api"
                   /\ UNCHANGED listener_running
              ELSE /\ lpc' = "dead"
                   /\ listener_running' = FALSE
                   /\ UNCHANGED audio

\* stop_recording() is entered: recording = False (line 103), then the
\* first test of the queue
StopEnter ==
    /\ UNCHANGED stack_typed
    /\ lpc = "stop"
    /\ recording' = FALSE
    /\ DrainTest(enq, session_fault, recording)
    /\ UNCHANGED <<typing_transcription, audio_queue, audio_data,
                   backtick_press_time, backtick_timer,
                   last_backtick_tap_time, transcription_stack>>
    /\ UNCHANGED <<lkey, keys_down, repeats, enq, session_fault, cfresh>>
    /\ UNCHANGED notListener

\* the test of the queue after a chunk was taken
StopDrain ==
    /\ UNCHANGED stack_typed
    /\ lpc = "drain"
    /\ DrainTest(l_enq, l_fault, l_active)
    /\ UNCHANGED <<recording, typing_transcription, audio_queue, audio_data,
                   backtick_press_time, backtick_timer,
                   last_backtick_tap_time, transcription_stack>>
    /\ UNCHANGED <<lkey, keys_down, repeats, enq, session_fault, cfresh>>
    /\ UNCHANGED notListener

\* line 107: audio_data.append(audio_queue.get()); get() blocks while the
\* queue is empty
StopGet ==
    /\ lpc = "get"
    /\ audio_queue # <<>>
    /\ audio_data' = Append(audio_data, Head(audio_queue))
    /\ audio_queue' = Tail(audio_queue)
    /\ lpc' = "drain"
    /\ UNCHANGED <<recording, typing_transcription, backtick_press_time,
                   backtick_timer, last_backtick_tap_time,
                   transcription_stack, tray>>
    /\ UNCHANGED <<lkey, audio, text, timers, listener_running>>
    /\ UNCHANGED <<keys_down, repeats, histVars>>
    /\ UNCHANGED notListener

\* -------------------------------------- listener: transcribe_and_type()
\* the finally block, lines 153-155, and the return to the listener
Finally ==
    /\ typing_transcription' = FALSE
    /\ tray' = ICON_IDLE
    /\ Return
    /\ cyc' = Returned(cyc)

\* lines 134-145: the transcription call; a non-empty stripped text gets a
\* trailing blank, is pushed on transcription_stack and the gate is set
Transcribe ==
    /\ lpc = "api"
    /\ \E ok \in BOOLEAN, r \in Transcriptions :
         IF ok /\ Strip(r) # <<>>
         THEN /\ text' = Strip(r) \o <<" ">>
              /\ transcription_stack' =
                    Append(transcription_stack, Strip(r) \o <<" ">>)
              /\ stack_typed' = Append(stack_typed, FALSE)
              /\ typing_transcription' = TRUE
              /\ lpc' = "type"
              /\ UNCHANGED <<tray, timers, cyc, audio, l_enq, l_fault, l_active,
                             listener_running>>
         ELSE /\ Finally
              /\ UNCHANGED <<transcription_stack, stack_typed>>
    /\ UNCHANGED <<recording, audio_queue, audio_data, backtick_press_time,
                   backtick_timer, last_backtick_tap_time>>
    /\ UNCHANGED <<lkey, keys_down, repeats, enq, session_fault, cfresh>>
    /\ UNCHANGED notListener

\* lines 146-155: xdotool type; its failure is swallowed by the except
TypeText ==
    /\ lpc = "type"
    /\ \E ok \in BOOLEAN :
         /\ Finally
         /\ stack_typed' =
               IF ok /\ stack_typed # <<>>
               THEN [stack_typed EXCEPT ![Len(stack_typed)] = TRUE]
               ELSE stack_typed
    /\ UNCHANGED <<recording, audio_queue, audio_data, backtick_press_time,
                   backtick_timer, last_backtick_tap_time,
                   transcription_stack>>
    /\ UNCHANGED <<lkey, keys_down, repeats, enq, session_fault, cfresh>>
    /\ UNCHANGED notListener

\* ------------------------------------------------------------ hold timer
\* the timer expires: start_recording_from_backtick() tests
\* backtick_press_time (line 194) and runs xdotool key BackSpace (line
\* 196); check=True raises when it fails and the timer thread ends
TimerFire(t) ==
    /\ UNCHANGED stack_typed
    /\ timers[t].state = "pending"
    /\ clock >= timers[t].deadline
    /\ IF backtick_press_time # None
       THEN \E ok \in BOOLEAN :
              /\ timers' = [timers EXCEPT ![t] =
                               IF ok THEN [@ EXCEPT !.state = "start"]
                               ELSE NoTimer]
              /\ cyc' = NoteFired(IF ok THEN NoteDel(cyc, 1) ELSE cyc, t)
       ELSE /\ timers' = [timers EXCEPT ![t] = NoTimer]
            /\ cyc' = NoteFired(cyc, t)
    /\ UNCHANGED <<progVars, envVars, enq, session_fault, cfresh, l_enq,
                   l_fault, l_active>>
    /\ UNCHANGED <<listenerVars, cpc, cchunk, dpc, stream_open,
                   listener_running>>

\* start_recording() called from the timer thread (line 197)
TimerStart(t) ==
    /\ UNCHANGED stack_typed
    /\ timers[t].state = "start"
    /\ timers' = [timers EXCEPT ![t] = NoTimer]
    /\ start_recording
    /\ cyc' = NoteBegin(cyc)
    /\ UNCHANGED <<typing_transcription, audio_queue, device_error,
                   backtick_press_time, backtick_timer,
                   last_backtick_tap_time, transcription_stack>>
    /\ UNCHANGED <<listenerVars, cpc, cchunk, dpc, stream_open,
                   listener_running>>
    /\ UNCHANGED <<envVars, l_enq, l_fault, l_active>>

\* --------------------------------------------------------- audio_callback
\* lines 83-87: the stream reports a status, the fault is signalled
AudioCallbackFault ==
    /\ UNCHANGED stack_typed
    /\ cpc = "idle" /\ stream_open
    /\ faults < MaxFaults
    /\ faults' = faults + 1
    /\ device_error' = TRUE
    /\ session_fault' = (session_fault \/ recording)
    /\ UNCHANGED <<recording, typing_transcription, audio_queue, audio_data,
                   backtick_press_time, backtick_timer,
                   last_backtick_tap_time, transcription_stack, tray>>
    /\ UNCHANGED <<flowVars, clock, keys_down, nextChunk, repeats>>
    /\ UNCHANGED <<cyc, enq, cfresh, l_enq, l_fault, l_active>>

\* line 88: a chunk is delivered and recording is read as true (a chunk
\* delivered while recording is false is dropped, which changes nothing)
AudioCallback ==
    /\ UNCHANGED stack_typed
    /\ cpc = "idle" /\ stream_open
    /\ recording
    /\ nextChunk <= MaxChunks
    /\ cchunk' = nextChunk
    /\ nextChunk' = nextChunk + 1
    /\ cpc' = "put"
    /\ cfresh' = TRUE
    /\ UNCHANGED <<progVars, cyc, enq, session_fault, l_enq, l_fault,
                   l_active>>
    /\ UNCHANGED <<listenerVars, timers, dpc, stream_open, listener_running>>
    /\ UNCHANGED <<clock, keys_down, faults, repeats>>

\* line 89: audio_queue.put(indata.copy())
AudioPut ==
    /\ UNCHANGED stack_typed
    /\ cpc = "put"
    /\ audio_queue' = Append(audio_queue, Chunk(cchunk))
    /\ cpc' = "idle"
    /\ cchunk' = 0
    /\ enq' = IF cfresh THEN Append(enq, Chunk(cchunk)) ELSE enq
    /\ cfresh' = FALSE
    /\ UNCHANGED <<recording, typing_transcription, audio_data, device_error,
                   backtick_press_time, backtick_timer,
                   last_backtick_tap_time, transcription_stack, tray>>
    /\ UNCHANGED <<listenerVars, timers, dpc, stream_open, listener_running>>
    /\ UNCHANGED <<envVars, cyc, session_fault, l_enq, l_fault, l_active>>

\* ---------------------------------------------------------- run_dictation
\* what no step of the recovery loop touches
notRecovery == <<typing_transcription, audio_data, backtick_press_time,
                 backtick_timer, last_backtick_tap_time,
                 transcription_stack, listenerVars, timers, cpc, cchunk,
                 listener_running, envVars, histVars>>

\* lines 255-262: while listener.running, device_error is cleared, the
\* capture stream opens and Idle is notified
RecoveryOpen ==
    /\ dpc = "loop" /\ listener_running
    /\ device_error' = FALSE
    /\ stream_open' = TRUE
    /\ tray' = ICON_IDLE
    /\ dpc' = "wait"
    /\ UNCHANGED <<recording, audio_queue>>
    /\ UNCHANGED notRecovery

\* lines 255-259 and 274-283: sd.InputStream raises; Error is notified and
\* the loop sleeps
RecoveryOpenFail ==
    /\ dpc = "loop" /\ listener_running
    /\ device_error' = FALSE
    /\ tray' = ICON_ERROR
    /\ dpc' = "sleep"
    /\ UNCHANGED <<recording, audio_queue, stream_open>>
    /\ UNCHANGED notRecovery

\* line 255: the listener has stopped, run_dictation returns
RecoveryExit ==
    /\ dpc = "loop" /\ ~listener_running
    /\ dpc' = "done"
    /\ UNCHANGED <<recording, audio_queue, device_error, stream_open, tray>>
    /\ UNCHANGED notRecovery

\* lines 264-270: the wait ends on a device error or when the listener has
\* stopped; on a device error recording is forced to false
RecoveryWait ==
    /\ dpc = "wait"
    /\ ~listener_running \/ device_error
    /\ IF device_error
       THEN recording' = FALSE /\ dpc' = "drain"
       ELSE dpc' = "close" /\ UNCHANGED recording
    /\ UNCHANGED <<audio_queue, device_error, stream_open, tray>>
    /\ UNCHANGED notRecovery

\* line 272: while not audio_queue.empty()
RecoveryDrain ==
    /\ dpc = "drain"
    /\ dpc' = IF audio_queue # <<>> THEN "get" ELSE "close"
    /\ UNCHANGED <<recording, audio_queue, device_error, stream_open, tray>>
    /\ UNCHANGED notRecovery

\* line 273: audio_queue.get(), which blocks while the queue is empty
RecoveryGet ==
    /\ dpc = "get"
    /\ audio_queue # <<>>
    /\ audio_queue' = Tail(audio_queue)
    /\ dpc' = "drain"
    /\ UNCHANGED <<recording, device_error, stream_open, tray>>
    /\ UNCHANGED notRecovery

\* the with block of line 259 is left: the stream is stopped and closed
\* once the callback in progress has returned; then lines 280-283
RecoveryClose ==
    /\ dpc = "close"
    /\ cpc = "idle"
    /\ stream_open' = FALSE
    /\ IF listener_running
       THEN tray' = ICON_ERROR /\ dpc' = "sleep"
       ELSE dpc' = "loop" /\ UNCHANGED tray
    /\ UNCHANGED <<recording, audio_queue, device_error>>
    /\ UNCHANGED notRecovery

\* line 283: time.sleep(RECONNECT_DELAY) returns
RecoverySleep ==
    /\ dpc = "sleep"
    /\ dpc' = "loop"
    /\ UNCHANGED <<recording, audio_queue, device_error, stream_open, tray>>
    /\ UNCHANGED notRecovery

\* ------------------------------------------------------------------ clock
\* time passes; an expired timer runs before the next unit of time
Tick ==
    /\ clock < MaxTime
    /\ \A t \in TimerIds :
         timers[t].state = "pending" => timers[t].deadline > clock
    /\ clock' = clock + 1
    /\ UNCHANGED <<progVars, flowVars, keys_down, nextChunk, faults, repeats,
                   histVars>>

\* --------------------------------------------------------- specifications
Keys == {HOTKEY, BACKTICK}

\* the whole program
Next ==
    \/ \E key \in Keys : OnPress(key)
    \/ \E key \in Keys : OnRepeat(key)
    \/ \E key \in Keys : OnRelease(key)
    \/ ReleaseBacktick
    \/ DoubleTapBackSpace
    \/ Undo
    \/ StopEnter
    \/ StopDrain
    \/ StopGet
    \/ Transcribe
    \/ TypeText
    \/ \E t \in TimerIds : TimerFire(t)
    \/ \E t \in TimerIds : TimerStart(t)
    \/ AudioCallbackFault
    \/ AudioCallback
    \/ AudioPut
    \/ RecoveryOpen
    \/ RecoveryOpenFail
    \/ RecoveryExit
    \/ RecoveryWait
    \/ RecoveryDrain
    \/ RecoveryGet
    \/ RecoveryClose
    \/ RecoverySleep
    \/ Tick

Spec == Init /\ [][Next]_vars

\* the hotkeys with a healthy capture device: no fault is signalled, the
\* stream opens at once and no auto-repeat press is delivered
NextKeys ==
    \/ \E key \in Keys : OnPress(key)
    \/ \E key \in Keys : OnRelease(key)
    \/ ReleaseBacktick
    \/ DoubleTapBackSpace
    \/ Undo
    \/ StopEnter
    \/ StopDrain
    \/ StopGet
    \/ Transcribe
    \/ TypeText
    \/ \E t \in TimerIds : TimerFire(t)
    \/ \E t \in TimerIds : TimerStart(t)
    \/ AudioCallback
    \/ AudioPut
    \/ RecoveryOpen
    \/ Tick

SpecKeys == Init /\ [][NextKeys]_vars

\* the capture device and its recovery, with the Pause key only
NextDevice ==
    \/ OnPress(HOTKEY)
    \/ OnRelease(HOTKEY)
    \/ StopEnter
    \/ StopDrain
    \/ StopGet
    \/ Transcribe
    \/ TypeText
    \/ AudioCallbackFault
    \/ AudioCallback
    \/ AudioPut
    \/ RecoveryOpen
    \/ RecoveryOpenFail
    \/ RecoveryExit
    \/ RecoveryWait
    \/ RecoveryDrain
    \/ RecoveryGet
    \/ RecoveryClose
    \/ RecoverySleep

SpecDevice == Init /\ [][NextDevice]_vars

\* the threads of the program keep running: the listener inside a handler,
\* the put of the capture callback, the recovery loop; and the capture
\* stream does not fail to open for ever
FairSpecDevice ==
    /\ SpecDevice
    /\ WF_vars(StopEnter \/ StopDrain \/ StopGet \/ Transcribe \/ TypeText)
    /\ WF_vars(AudioPut)
    /\ WF_vars(RecoveryExit \/ RecoveryWait \/ RecoveryDrain \/ RecoveryGet
                   \/ RecoveryClose \/ RecoverySleep)
    /\ SF_vars(RecoveryOpen)

\* the hotkeys with a healthy capture device and every key event inside
\* one unit of time: no hold timer expires
NextTaps ==
    \/ \E key \in Keys : OnPress(key)
    \/ \E key \in Keys : OnRelease(key)
    \/ ReleaseBacktick
    \/ DoubleTapBackSpace
    \/ Undo
    \/ StopEnter
    \/ StopDrain
    \/ StopGet
    \/ Transcribe
    \/ TypeText
    \/ AudioCallback
    \/ AudioPut
    \/ RecoveryOpen

SpecTaps == Init /\ [][NextTaps]_vars

\* the same, with the handlers also called while text is being injected
NextGate ==
    \/ NextTaps
    \/ \E key \in Keys : PressWhileTyping(key)
    \/ \E key \in Keys : ReleaseWhileTyping(key)

SpecGate == Init /\ [][NextGate]_vars

\* the backtick key alone, with auto-repeat presses while it is held
NextRepeat ==
    \/ OnPress(BACKTICK)
    \/ OnRepeat(BACKTICK)
    \/ OnRelease(BACKTICK)
    \/ ReleaseBacktick
    \/ DoubleTapBackSpace
    \/ Undo
    \/ StopEnter
    \/ \E t \in TimerIds : TimerFire(t)
    \/ \E t \in TimerIds : TimerStart(t)
    \/ Tick

SpecRepeat == Init /\ [][NextRepeat]_vars

\* ----------------------------------------------------------------- claims
IsPrefix(s, t) == Len(s) <= Len(t) /\ SubSeq(t, 1, Len(s)) = s

\* the backtick press cycle is over: its release handler has returned and
\* the timer thread of its press has ended
CycleOver ==
    /\ cyc.press # 0
    /\ cyc.done
    /\ timers[cyc.press].state = "unused"

\* C1: a backtick press (no recording active at the press) released at
\* least the hold threshold later gives exactly one start_recording, then
\* exactly one stop_recording, and exactly one BackSpace, issued before the
\* start_recording.
C1_HoldBeginsAndEndsOnce ==
    (CycleOver /\ cyc.held) =>
        /\ cyc.begin = 1
        /\ cyc.end = 1
        /\ cyc.del = 1
        /\ cyc.del_first = 1

\* C2: when the hold timer fires concurrently with the release of its
\* press, exactly one of the two wins; in particular the timer callback
\* never begins a recording after the release handler for that press has
\* returned.
C2_NoBeginAfterRelease ==
    [][\A t \in TimerIds :
          (timers[t].state = "start" /\ timers'[t].state = "unused")
              => timers[t].rel # "done"]_vars

\* C3: no transcription call is made with the audio of a session during
\* which a device fault was signalled.
C3_FaultedSessionDiscarded ==
    lpc = "api" => ~l_fault

\* C5: the audio handed to transcription is the concatenation, in arrival
\* order, of the chunks enqueued during that session: it holds every chunk
\* enqueued before stop_recording ran and only chunks delivered during the
\* session (no device fault being signalled).
C5_AudioIsSessionChunks ==
    (lpc = "api" /\ faults = 0) =>
        /\ IsPrefix(Concatenate(l_enq), audio)
        /\ IsPrefix(audio, Concatenate(enq))

\* C6: the release of a second backtick tap less than the double-tap
\* window after the first emits Undo and exactly two corrective deletions
\* and leaves last_backtick_tap_time empty.
C6_DoubleTapUndoes ==
    (cyc.done /\ ~cyc.long /\ cyc.prior) =>
        /\ cyc.undo = 1
        /\ cyc.del = 2
        /\ last_backtick_tap_time = None

\* C7: a single backtick tap with no earlier tap inside the double-tap
\* window emits no BeginRecording, EndRecording, Undo or corrective
\* deletion, its hold timer is cancelled and never fires, and
\* last_backtick_tap_time is the time of the release.
C7_SingleTapEmitsNothing ==
    (cyc.done /\ ~cyc.long /\ ~cyc.prior) =>
        /\ cyc.begin = 0 /\ cyc.end = 0
        /\ cyc.undo = 0 /\ cyc.del = 0
        /\ cyc.timer = "cancelled"
        /\ last_backtick_tap_time = cyc.at

\* C4: every device fault is followed by an Error notification, and every
\* Error notification by an Idle notification, unless the listener stops.
C4_FaultThenErrorThenIdle ==
    /\ (device_error /\ listener_running)
           ~> (tray = ICON_ERROR \/ ~listener_running)
    /\ (tray = ICON_ERROR) ~> (tray = ICON_IDLE \/ ~listener_running)

\* C8: an Undo that returns has popped the most recently pushed string and
\* issued one BackSpace per character of it; on an empty stack it issued
\* none and left the stack empty.
C8_UndoPopsAndDeletes ==
    [][(lpc = "undo" /\ lpc' = "idle") =>
          IF transcription_stack = <<>>
          THEN transcription_stack' = <<>> /\ cyc'.undel = 0
          ELSE /\ transcription_stack \o <<>> =
                     Append(transcription_stack',
                            transcription_stack[Len(transcription_stack)])
               /\ cyc'.undel =
                     Len(transcription_stack[Len(transcription_stack)])]_vars

\* Undo of "hello " typed onto an empty stack: six deletions, stack empty
C8_Witness ==
    /\ cyc.done /\ cyc.undo = 1 /\ cyc.undel = 6
    /\ transcription_stack = <<>>

C9_StopWithoutSessionIsNoOp ==
    lpc \in {"get", "drain", "api", "type"} /\ ~l_active
        => lpc \notin {"api", "type"}

\* C11: when the transcription call fails or returns a text that is empty
\* after trimming, transcribe_and_type returns without injecting: the undo
\* stack is unchanged, the gate is clear and the status is Idle; so no
\* entry of the undo stack is ever made of blanks only.
C11_NoPushOnFailure ==
    /\ [](\A i \in 1..Len(transcription_stack) :
             \E j \in 1..Len(transcription_stack[i]) :
                 transcription_stack[i][j] # " ")
    /\ [][(lpc = "api" /\ lpc' = "idle") =>
             /\ transcription_stack' = transcription_stack
             /\ ~typing_transcription'
             /\ tray' = ICON_IDLE]_vars

\* a session with audio has gone through transcribe_and_type and nothing
\* was pushed
C11_Witness ==
    /\ lpc = "idle" /\ ~recording
    /\ audio_data # <<>>
    /\ transcription_stack = <<>>
    /\ ~typing_transcription
    /\ tray = ICON_IDLE

\* C12: outside the injection itself, every entry of the undo stack is a
\* text that the xdotool type call typed successfully.
C12_StackHoldsTypedTexts ==
    lpc # "type" => \A i \in 1..Len(stack_typed) : stack_typed[i]

\* C13: while a transcription call or the injection that follows it is in
\* flight, the listener is able to handle the next key event.
C13_IntakeNotBlocked ==
    (lpc \in {"api", "type"} /\ listener_running) =>
        ENABLED (\E key \in Keys : OnPress(key) \/ OnRelease(key))

\* C14: start_recording never runs while the recording flag is already
\* set.  The call of on_press is behind the test of line 179; the other
\* call is the one the hold timer makes.
C14_NoBeginWhileActive ==
    [][(\E t \in TimerIds : TimerStart(t)) => ~recording]_vars

\* C15: every stop_recording that drained audio and notified Transcribing
\* is eventually followed by an Idle notification with the gate clear.
C15_TranscribingLeadsToIdle ==
    (tray = ICON_TRANSCRIBING) ~> (tray = ICON_IDLE /\ ~typing_transcription)

\* C16: while a session is active, audio_queue and audio_data hold only
\* chunks that the capture callback was handed during that session; in
\* particular both are empty when start_recording has just made the
\* session active.
C16_SessionHoldsOwnChunks ==
    recording =>
        \A c \in {audio_queue[i] : i \in 1..Len(audio_queue)}
                 \cup {audio_data[i] : i \in 1..Len(audio_data)} :
            \E k \in 1..Len(enq) : enq[k] = c

\* C17: a backtick release goes to stop_recording only when a hold timer
\* has started a recording since the press of that backtick was accepted.
C17_ReleaseEndsOwnRecording ==
    [][(lpc = "release" /\ lpc' = "stop") => cyc.begin >= 1]_vars

\* C18: at most one hold timer is pending (started, not cancelled, not yet
\* fired) at any time.
C18_OnePendingTimer ==
    Cardinality({t \in TimerIds : timers[t].state = "pending"}) <= 1

\* C19: when neither hotkey is held, no hold timer is pending or running
\* its callback and no key handler is executing, recording is false.
C19_NoStuckRecording ==
    (/\ keys_down = {}
     /\ \A t \in TimerIds : timers[t].state = "unused"
     /\ lpc = "idle")
        => ~recording

\* C20: with no key handler mid-step, the status last notified is
\* Recording exactly when the recording flag is set.
C20_StatusAgreesWithRecording ==
    lpc = "idle" => (recording <=> tray = ICON_RECORDING)

====
